---- MODULE Spec2Model ----
(***************************************************************************)
(* A model of safe_printf: the three tokenizers (lex.rs), the argument     *)
(* splitter and the specifier scanner (parse.rs), the call-site scanner,   *)
(* the matcher and the two renderers (ir.rs), and the driver (main.rs).    *)
(*                                                                         *)
(* Text is a sequence of one-character strings.  An offset is a byte       *)
(* offset into such a sequence (every character of the model's alphabet is *)
(* one byte), a span is a half-open range [start, end) of offsets, as      *)
(* std::ops::Range<usize> is.                                              *)
(***************************************************************************)
EXTENDS Integers, Sequences, FiniteSets, TLC

(***************************************************************************)
(* Option<T>                                                               *)
(***************************************************************************)
None == [some |-> FALSE]
Some(x) == [some |-> TRUE, v |-> x]

Range(a, b) == [start |-> a, end |-> b]

(***************************************************************************)
(* The alphabet the model's sources are written in.  The tokenizers below  *)
(* are the regexes of lex.rs restricted to this alphabet: rules that need  *)
(* a character outside it (comments "/", escapes "\", char literals "'",   *)
(* the string prefixes u8 u U L, floats "." "e", hex and octal numbers     *)
(* "0") cannot start on such a text and are left out.                      *)
(***************************************************************************)
Whitespace == {" "}
Letters == {"p", "r", "i", "n", "t", "f", "s", "l", "o", "a", "c", "h",
            "x", "b", "d", "_"}
Digits == {"5"}
Symbols == {";", "%", "*"}
Alphabet == Whitespace \cup Letters \cup Digits \cup Symbols
              \cup {"(", ")", ",", "\""}

\* &s[a..b]
Slice(s, a, b) == SubSeq(s, a + 1, b)

\* s[p..].starts_with(w)
StartsWith(s, p, w) ==
  /\ p + Len(w) <= Len(s)
  /\ SubSeq(s, p + 1, p + Len(w)) = w

\* Trim first and last byte from a string
trim(s) == SubSeq(s, 2, Len(s) - 1)

\* (?&ws)*  from offset p: the offset of the first non-whitespace character
RECURSIVE SkipWs(_, _)
SkipWs(s, p) ==
  IF p < Len(s) /\ s[p + 1] \in Whitespace THEN SkipWs(s, p + 1) ELSE p

\* "([^"\\\n]|(?&es))*"  from the offset after the opening quote: the offset
\* after the closing quote, or -1 when the text ends first
RECURSIVE StrBody(_, _)
StrBody(s, p) ==
  IF p >= Len(s) THEN -1
  ELSE IF s[p + 1] = "\"" THEN p + 1
  ELSE StrBody(s, p + 1)

\* ((?&sp)?"([^"\\\n]|(?&es))*"(?&ws)*)+  the end of the longest match at p,
\* or -1: adjacent literals and the whitespace after each belong to the token
RECURSIVE StrMany(_, _)
StrMany(s, p) ==
  IF p < Len(s) /\ s[p + 1] = "\"" /\ StrBody(s, p + 1) # -1
    THEN LET e == SkipWs(s, StrBody(s, p + 1))
             more == StrMany(s, e)
         IN  IF more = -1 THEN e ELSE more
    ELSE -1

s_printf == <<"p", "r", "i", "n", "t", "f">>
s_sprintf == <<"s">> \o s_printf
s_snprintf == <<"s", "n">> \o s_printf

Tok(kind, a, b) == [kind |-> kind, start |-> a, end |-> b, ctype |-> "-"]

(***************************************************************************)
(* SourceToken: the token at or after offset pos (whitespace is skipped),  *)
(* None at the end of the text.  A character that starts no rule is the    *)
(* one-character error token Other.                                        *)
(***************************************************************************)
SourceTokenAt(s, p) ==
  IF p >= Len(s) THEN None
  ELSE Some(CASE s[p + 1] = "\"" /\ StrMany(s, p) # -1 ->
                   Tok("String", p, StrMany(s, p))
              [] s[p + 1] = "("               -> Tok("LParen", p, p + 1)
              [] s[p + 1] = ")"               -> Tok("RParen", p, p + 1)
              [] StartsWith(s, p, s_snprintf) -> Tok("Snprintf", p, p + 8)
              [] StartsWith(s, p, s_sprintf)  -> Tok("Sprintf", p, p + 7)
              [] StartsWith(s, p, s_printf)   -> Tok("Printf", p, p + 6)
              [] OTHER                        -> Tok("Other", p, p + 1))

SourceToken(s, pos) == SourceTokenAt(s, SkipWs(s, pos))

\* (?&a)*  the end of an identifier's tail
RECURSIVE IdentEnd(_, _)
IdentEnd(s, p) ==
  IF p < Len(s) /\ s[p + 1] \in Letters \cup Digits THEN IdentEnd(s, p + 1) ELSE p

\* (?&d)*
RECURSIVE DigitsEnd(_, _)
DigitsEnd(s, p) ==
  IF p < Len(s) /\ s[p + 1] \in Digits THEN DigitsEnd(s, p + 1) ELSE p

\* (?&nz)(?&d)*(?&is)?  of the integer suffixes only l and ll are in the alphabet
IntEnd(s, p) ==
  LET e == DigitsEnd(s, p) IN
  IF StartsWith(s, e, <<"l", "l">>) THEN e + 2
  ELSE IF StartsWith(s, e, <<"l">>) THEN e + 1
  ELSE e

s_cast_int == <<"(", "i", "n", "t", ")">>
s_cast_float == <<"(", "f", "l", "o", "a", "t", ")">>
s_cast_string == <<"(", "c", "h", "a", "r", "*", ")">>

(***************************************************************************)
(* ArgToken: the token at or after offset pos.  The three cast tokens are  *)
(* longer than "(" and win over LParen.                                    *)
(***************************************************************************)
ArgTokenAt(s, p) ==
  IF p >= Len(s) THEN None
  ELSE LET c == s[p + 1] IN
       Some(CASE StartsWith(s, p, s_cast_int) ->
                   [Tok("TypeCast", p, p + 5) EXCEPT !.ctype = "Int"]
              [] StartsWith(s, p, s_cast_float) ->
                   [Tok("TypeCast", p, p + 7) EXCEPT !.ctype = "Float"]
              [] StartsWith(s, p, s_cast_string) ->
                   [Tok("TypeCast", p, p + 7) EXCEPT !.ctype = "String"]
              [] c = "("  -> Tok("LParen", p, p + 1)
              [] c = ")"  -> Tok("RParen", p, p + 1)
              [] c = ","  -> Tok("Comma", p, p + 1)
              [] c = "\"" /\ StrMany(s, p) # -1 -> Tok("String", p, StrMany(s, p))
              [] c \in Digits  -> Tok("Int", p, IntEnd(s, p))
              [] c \in Letters -> Tok("Identifier", p, IdentEnd(s, p + 1))
              [] c \in Symbols -> Tok("Symbol", p, p + 1)
              [] OTHER -> Tok("Unknown", p, p + 1))

ArgToken(s, pos) == ArgTokenAt(s, SkipWs(s, pos))

(***************************************************************************)
(* FormatToken: the token at offset pos of a format string's content.      *)
(* %(?&opts)?[di] is Int, %(?&opts)?s is String, %(?&opts)?f is Float; of  *)
(* opts only digits are in the alphabet.  Anything else is a one-character *)
(* Normal.  A specifier's options are its slice without the "%" and the    *)
(* letter.                                                                 *)
(***************************************************************************)
SpecifierTok(f, pos, q, ctype) ==
  [kind |-> "Specifier", start |-> pos, end |-> q + 1,
   options |-> trim(Slice(f, pos, q + 1)), ctype |-> ctype]

\* q is the offset after the "%" and the digits that follow it
FormatTokenAt(f, pos, q) ==
  LET letter == IF q < Len(f) THEN f[q + 1] ELSE "-" IN
  CASE f[pos + 1] = "%" /\ letter \in {"d", "i"} -> SpecifierTok(f, pos, q, "Int")
    [] f[pos + 1] = "%" /\ letter = "s" -> SpecifierTok(f, pos, q, "String")
    [] f[pos + 1] = "%" /\ letter = "f" -> SpecifierTok(f, pos, q, "Float")
    [] OTHER -> [kind |-> "Normal", start |-> pos, end |-> pos + 1,
                 options |-> <<>>, ctype |-> "-"]

FormatToken(f, pos) ==
  IF pos >= Len(f) THEN None
  ELSE Some(FormatTokenAt(f, pos, DigitsEnd(f, pos + 1)))

\* parse.rs: union of an optional span and a token's span
union(span, other) ==
  IF span.some THEN Some(Range(span.v.start, other.end)) ELSE Some(other)

(***************************************************************************)
(* Args: the iterator over a call's arguments.  Its state is the argument  *)
(* lexer's span (tstart, tend: the next token is read from tend),          *)
(* has_remaining, start and end.                                           *)
(***************************************************************************)
\* Args::new: a fresh argument lexer over the whole text (span 0..0), bumped
\* to where the source lexer's "(" ends: bump moves the end of the span only
ArgsNew(lex) ==
  [tstart |-> 0, tend |-> lex.end, has_remaining |-> TRUE,
   start |-> lex.end, end |-> lex.end]

Arg(single_token, span, cast) ==
  [single_token |-> single_token, span |-> span, cast |-> cast]

\* `span: span?` in a return of Args::next: no span, no argument
ArgItem(single_token, span, cast) ==
  IF span.some THEN Some(Arg(single_token, span.v, cast)) ELSE None

(***************************************************************************)
(* The loop of Args::next.  The result is the iterator's state after the   *)
(* call, the item returned, and the number of bytes the source lexer was   *)
(* bumped by (0 unless the closing ")" was met).                           *)
(***************************************************************************)
RECURSIVE ArgsLoop(_, _, _, _, _, _, _)
\* a turn that ends the argument at every comma, nested or not
ArgsTurnFlat(s, a, t, cast, span, opened, single_token, count) ==
  IF ~t.some
    THEN [args |-> [a EXCEPT !.tstart = Len(s), !.tend = Len(s)],
          item |-> None, bump |-> 0]
    ELSE
      LET tk == t.v
          tspan == Range(tk.start, tk.end)
          a1 == [a EXCEPT !.tstart = tk.start, !.tend = tk.end]
          a2 == [a1 EXCEPT !.end = tk.end]
          span2 == union(span, tspan)
      IN  CASE tk.kind = "Comma" ->
                 [args |-> a1, item |-> ArgItem(single_token, span, cast),
                  bump |-> 0]
            [] tk.kind = "LParen" ->
                 ArgsLoop(s, a2, cast, span2, opened + 1, single_token, count)
            [] tk.kind = "RParen" /\ opened > 0 ->
                 ArgsLoop(s, a2, cast, span2, opened - 1, single_token, count)
            [] tk.kind = "RParen" /\ opened = 0 ->
                 [args |-> [a1 EXCEPT !.has_remaining = FALSE,
                                      !.end = tk.start],
                  item |-> ArgItem(single_token, span, cast),
                  bump |-> tk.start - a.start + 1]
            [] tk.kind = "TypeCast" /\ ~cast.some ->
                 ArgsLoop(s, a2, Some([ctype |-> tk.ctype, span |-> tspan]),
                          span2, opened, single_token, count)
            [] OTHER ->
                 ArgsLoop(s, a2, cast, span2, opened,
                          IF count = 0 THEN Some(tk) ELSE None, count + 1)

\* one turn of the loop, t being the value of self.lex.next()
ArgsTurn(s, a, t, cast, span, opened, single_token, count) ==
  IF ~t.some
    THEN \* self.lex.next()? at the end of the text
         [args |-> [a EXCEPT !.tstart = Len(s), !.tend = Len(s)],
          item |-> None, bump |-> 0]
    ELSE
      LET tk == t.v
          tspan == Range(tk.start, tk.end)
          a1 == [a EXCEPT !.tstart = tk.start, !.tend = tk.end]
          \* the tail of the loop body: span and self.end take the token in
          a2 == [a1 EXCEPT !.end = tk.end]
          span2 == union(span, tspan)
      IN  CASE tk.kind = "Comma" /\ opened = 0 ->
                 [args |-> a1, item |-> ArgItem(single_token, span, cast),
                  bump |-> 0]
            [] tk.kind = "LParen" ->
                 ArgsLoop(s, a2, cast, span2, opened + 1, single_token, count)
            [] tk.kind = "RParen" /\ opened > 0 ->
                 ArgsLoop(s, a2, cast, span2, opened - 1, single_token, count)
            [] tk.kind = "RParen" /\ opened = 0 ->
                 [args |-> [a1 EXCEPT !.has_remaining = FALSE,
                                      !.end = tk.start],
                  item |-> ArgItem(single_token, span, cast),
                  bump |-> tk.start - a.start + 1]
            [] tk.kind = "TypeCast" /\ ~cast.some ->
                 ArgsLoop(s, a2, Some([ctype |-> tk.ctype, span |-> tspan]),
                          span2, opened, single_token, count)
            [] OTHER ->
                 ArgsLoop(s, a2, cast, span2, opened,
                          IF count = 0 THEN Some(tk) ELSE None, count + 1)

ArgsLoop(s, a, cast, span, opened, single_token, count) ==
  ArgsTurn(s, a, ArgToken(s, a.tend), cast, span, opened, single_token, count)

\* Args::next
ArgsNext(s, a) ==
  IF ~a.has_remaining
    THEN [args |-> a, item |-> None, bump |-> 0]
    ELSE ArgsLoop(s, a, None, None, 0, None, 0)

(***************************************************************************)
(* Args::short_circuit: next() until it returns None, counting the items.  *)
(* The result has the count, the span start..end, the bytes the source     *)
(* lexer was bumped by, and the iterator's final state.                    *)
(***************************************************************************)
RECURSIVE ShortCircuitFrom(_, _, _, _)
\* one turn of count(), r being the value of next()
ShortCircuitTurn(s, r, n, bump) ==
  IF r.item.some
    THEN ShortCircuitFrom(s, r.args, n + 1, bump + r.bump)
    ELSE [remaining |-> n, span |-> Range(r.args.start, r.args.end),
          bump |-> bump + r.bump, args |-> r.args]

ShortCircuitFrom(s, a, n, bump) == ShortCircuitTurn(s, ArgsNext(s, a), n, bump)

short_circuit(s, a) == ShortCircuitFrom(s, a, 0, 0)

(***************************************************************************)
(* Specifiers: the iterator over a format string's specifiers.  Its state  *)
(* is the format lexer's span (tstart, tend), before and remainder.        *)
(***************************************************************************)
SpecifiersNew(format) ==
  [tstart |-> 0, tend |-> 0, before |-> <<>>, remainder |-> format]

Specifier(options, ctype) == [options |-> options, ctype |-> ctype]

\* The loop of Specifiers::next: Normal tokens are gathered into span until a
\* specifier is met (before and remainder are set) or the text ends (they
\* are left as they were)
RECURSIVE SpecifiersLoop(_, _, _)
\* one turn of the loop, t being the value of self.lex.next()
SpecifiersTurn(f, sp, t, span) ==
  IF ~t.some
    THEN [specs |-> [sp EXCEPT !.tstart = Len(f), !.tend = Len(f)],
          item |-> None]
    ELSE LET tk == t.v
             sp1 == [sp EXCEPT !.tstart = tk.start, !.tend = tk.end]
         IN  IF tk.kind = "Specifier"
               THEN [specs |-> [sp1 EXCEPT
                        !.before = IF span.some
                                     THEN Slice(f, span.v.start, span.v.end)
                                     ELSE <<>>,
                        !.remainder = Slice(f, tk.end, Len(f))],
                     item |-> Some(Specifier(tk.options, tk.ctype))]
               ELSE SpecifiersLoop(f, sp1, union(span, Range(tk.start, tk.end)))

SpecifiersLoop(f, sp, span) ==
  SpecifiersTurn(f, sp, FormatToken(f, sp.tend), span)

\* Specifiers::next
SpecifiersNext(f, sp) == SpecifiersLoop(f, sp, None)

\* Specifiers::span
SpecifiersSpan(sp, format_offset) ==
  Range(format_offset + sp.tstart, format_offset + sp.tend)

\* Iterator::count on Specifiers: the specifiers still to come
RECURSIVE SpecifiersCount(_, _)
SpecifiersCountTurn(f, r) ==
  IF r.item.some THEN 1 + SpecifiersCount(f, r.specs) ELSE 0

SpecifiersCount(f, sp) == SpecifiersCountTurn(f, SpecifiersNext(f, sp))

(***************************************************************************)
(* The errors of error.rs.  The help text of NonliteralFormat is one of    *)
(* two sentences; it is kept as the sentence chosen and the identifier     *)
(* spliced into it.                                                        *)
(***************************************************************************)
MissingFunctionArgs(span) == [kind |-> "MissingFunctionArgs", span |-> span]

\* Error::nonliteral
nonliteral(s, arg) ==
  [kind |-> "NonliteralFormat", span |-> arg.span,
   help |-> IF arg.single_token.some /\ arg.single_token.v.kind = "Identifier"
              THEN [advice |-> "use printf(\"%s\", ident)",
                    ident |-> Slice(s, arg.single_token.v.start,
                                    arg.single_token.v.end)]
              ELSE [advice |-> "use a string literal", ident |-> <<>>]]

SpecifierCastMismatch(specifier_span, specifier_ctype, cast_span, cast_ctype) ==
  [kind |-> "SpecifierCastMismatch", span |-> specifier_span,
   specifier_ctype |-> specifier_ctype,
   cast_span |-> cast_span, cast_ctype |-> cast_ctype]

ExcessSpecifiers(format_span, args_span, n) ==
  [kind |-> "ExcessSpecifiers", span |-> format_span, args_span |-> args_span,
   additional_specifiers |-> n]

ExcessArgs(format_span, args_span, n) ==
  [kind |-> "ExcessArgs", span |-> format_span, args_span |-> args_span,
   additional_args |-> n]

(***************************************************************************)
(* Args::next_format_string: Ok((format, span)) when the next argument is  *)
(* a single string literal token, the error otherwise.                     *)
(***************************************************************************)
\* r is the value of self.next()
FormatStringOf(s, r) ==
  [args |-> r.args, bump |-> r.bump,
   res |-> IF r.item.some
             THEN IF r.item.v.single_token.some
                     /\ r.item.v.single_token.v.kind = "String"
                    THEN [ok |-> TRUE,
                          format |-> trim(Slice(s, r.item.v.single_token.v.start,
                                                r.item.v.single_token.v.end)),
                          span |-> r.item.v.span]
                    ELSE [ok |-> FALSE, error |-> nonliteral(s, r.item.v)]
             ELSE [ok |-> FALSE,
                   error |-> MissingFunctionArgs(Range(r.args.start, r.args.end))]]

next_format_string(s, a) == FormatStringOf(s, ArgsNext(s, a))

\* the const generic PRE_ARGS of parse_args at its three call sites
PRE_ARGS(name) ==
  CASE name = "Printf" -> 0 [] name = "Sprintf" -> 1 [] name = "Snprintf" -> 2

FormatValue(arg, type_checked, specifier) ==
  [arg |-> arg, type_checked |-> type_checked, specifier |-> specifier]

Interpolation(pairs, last) == [pairs |-> pairs, last |-> last]

\* the closures that wrap the value of parse_args into a Site
Site(name, pre_args, format) ==
  CASE name = "Printf" -> [kind |-> "Printf", format |-> format]
    [] name = "Sprintf" ->
         [kind |-> "Sprintf", buffer |-> pre_args[1], format |-> format]
    [] name = "Snprintf" ->
         [kind |-> "Snprintf", buffer |-> pre_args[1], bufsz |-> pre_args[2],
          format |-> format]

\* a matcher that reports the first mismatch of a call only
MatchPairFailFast(maybe_pairs, errs, specifier, arg, before, arg_text, specifier_span) ==
  CASE maybe_pairs.some /\ arg.cast.some ->
         IF arg.cast.v.ctype = specifier.ctype
           THEN [maybe_pairs |-> Some(Append(maybe_pairs.v,
                     <<before, FormatValue(arg_text, TRUE, specifier)>>)),
                 errors |-> errs]
           ELSE [maybe_pairs |-> None,
                 errors |-> Append(errs, SpecifierCastMismatch(specifier_span,
                     specifier.ctype, arg.cast.v.span, arg.cast.v.ctype))]
    [] maybe_pairs.some /\ ~arg.cast.some ->
         [maybe_pairs |-> Some(Append(maybe_pairs.v,
              <<before, FormatValue(arg_text, FALSE, specifier)>>)),
          errors |-> errs]
    [] OTHER -> [maybe_pairs |-> maybe_pairs, errors |-> errs]

(***************************************************************************)
(* The arm (Some(specifier), Some(arg)) of the matcher's loop: the new     *)
(* maybe_pairs and the new errors.                                         *)
(***************************************************************************)
MatchPair(maybe_pairs, errs, specifier, arg, before, arg_text, specifier_span) ==
  CASE maybe_pairs.some /\ arg.cast.some ->
         IF arg.cast.v.ctype = specifier.ctype
           THEN [maybe_pairs |-> Some(Append(maybe_pairs.v,
                     <<before, FormatValue(arg_text, TRUE, specifier)>>)),
                 errors |-> errs]
           ELSE [maybe_pairs |-> None,
                 errors |-> Append(errs, SpecifierCastMismatch(specifier_span,
                     specifier.ctype, arg.cast.v.span, arg.cast.v.ctype))]
    [] maybe_pairs.some /\ ~arg.cast.some ->
         [maybe_pairs |-> Some(Append(maybe_pairs.v,
              <<before, FormatValue(arg_text, FALSE, specifier)>>)),
          errors |-> errs]
    [] ~maybe_pairs.some /\ arg.cast.some ->
         [maybe_pairs |-> None,
          errors |-> IF arg.cast.v.ctype # specifier.ctype
                       THEN Append(errs, SpecifierCastMismatch(specifier_span,
                              specifier.ctype, arg.cast.v.span, arg.cast.v.ctype))
                       ELSE errs]
    [] OTHER -> [maybe_pairs |-> maybe_pairs, errors |-> errs]

(***************************************************************************)
(* CType                                                                   *)
(***************************************************************************)
\* CType::specifier_char
specifier_char(ctype) ==
  CASE ctype = "Int" -> "d" [] ctype = "Float" -> "f" [] ctype = "String" -> "s"

\* CType::format_fn
format_fn(ctype) ==
  CASE ctype = "Int" -> <<"f", "m", "t", "_", "i", "n", "t">>
    [] ctype = "Float" -> <<"f", "m", "t", "_", "f", "l", "o", "a", "t">>
    [] ctype = "String" -> <<"f", "m", "t", "_", "s", "t", "r", "i", "n", "g">>

\* the Display of CType, derived from the variants' doc comments
CTypeDisplay(ctype) ==
  CASE ctype = "Int" -> <<"i", "n", "t">>
    [] ctype = "Float" -> <<"f", "l", "o", "a", "t">>
    [] ctype = "String" -> <<"c", "h", "a", "r", "*">>

\* the Display of usize
DecDigit(d) ==
  CASE d = 0 -> "0" [] d = 1 -> "1" [] d = 2 -> "2" [] d = 3 -> "3"
    [] d = 4 -> "4" [] d = 5 -> "5" [] d = 6 -> "6" [] d = 7 -> "7"
    [] d = 8 -> "8" [] d = 9 -> "9"

RECURSIVE DisplayUsize(_)
DisplayUsize(n) ==
  IF n < 10 THEN <<DecDigit(n)>>
  ELSE DisplayUsize(n \div 10) \o <<DecDigit(n % 10)>>

(***************************************************************************)
(* The renderers.  Each is the text its Display writes.                    *)
(***************************************************************************)
\* pieces of the format strings of the two format_site closures
t_buffer_cast ==
  <<"(", "c", "h", "a", "r", "*", " ", "r", "e", "s", "t", "r", "i", "c", "t",
    ")", " ", "(">>
t_size_cast ==
  <<")", ",", " ", "(", "s", "i", "z", "e", "_", "t", ")", " ", "(">>

\* display_optimize: the head of a site, up to the argument count
OptimizeHead(site) ==
  CASE site.kind = "Printf" ->
         <<"s", "a", "f", "e", "_", "p", "r", "i", "n", "t", "f", "(">>
    [] site.kind = "Sprintf" ->
         <<"s", "a", "f", "e", "_", "s", "p", "r", "i", "n", "t", "f", "(">>
           \o t_buffer_cast \o site.buffer \o <<")", ",", " ">>
    [] site.kind = "Snprintf" ->
         <<"s", "a", "f", "e", "_", "s", "n", "p", "r", "i", "n", "t", "f", "(">>
           \o t_buffer_cast \o site.buffer \o t_size_cast
           \o site.bufsz \o <<")", ",", " ">>

\* display_optimize: the three arguments written for the pairs from the i-th on
RECURSIVE OptimizePairs(_, _)
OptimizePairs(pairs, i) ==
  IF i > Len(pairs) THEN <<>>
  ELSE LET chunk == pairs[i][1]
           displayable == pairs[i][2]
       IN  <<",", " ", "\"">> \o chunk
             \o <<"\"", ",", " ", "(", "v", "o", "i", "d", "*", ")", " ">>
             \o (IF displayable.specifier.ctype # "String" THEN <<"&">> ELSE <<>>)
             \o <<"(">> \o displayable.arg \o <<")", ",", " ">>
             \o format_fn(displayable.specifier.ctype)
             \o OptimizePairs(pairs, i + 1)

\* a renderer that counts the arguments of the pairs only
OptimizeSiteCountsPairs(site) ==
  OptimizeHead(site)
    \o DisplayUsize(Len(site.format.pairs) * 3)
    \o OptimizePairs(site.format.pairs, 1)
    \o <<",", " ", "\"">> \o site.format.last \o <<"\"", ")">>

\* display_optimize: the closure format_site
OptimizeSite(site) ==
  OptimizeHead(site)
    \o DisplayUsize(Len(site.format.pairs) * 3 + 1)
    \o OptimizePairs(site.format.pairs, 1)
    \o <<",", " ", "\"">> \o site.format.last \o <<"\"", ")">>

\* display_typecast: the head of a site, up to the format string's opening quote
TypecastHead(site) ==
  CASE site.kind = "Printf" -> <<"p", "r", "i", "n", "t", "f", "(", "\"">>
    [] site.kind = "Sprintf" ->
         s_sprintf \o <<"(">> \o t_buffer_cast \o site.buffer
           \o <<")", ",", " ", "\"">>
    [] site.kind = "Snprintf" ->
         s_snprintf \o <<"(">> \o t_buffer_cast \o site.buffer \o t_size_cast
           \o site.bufsz \o <<")", ",", " ", "\"">>

\* display_typecast: reconstruct the format string
RECURSIVE TypecastFormat(_, _)
TypecastFormat(pairs, i) ==
  IF i > Len(pairs) THEN <<>>
  ELSE LET chunk == pairs[i][1]
           specifier == pairs[i][2].specifier
       IN  chunk \o <<"%">> \o specifier.options
             \o <<specifier_char(specifier.ctype)>>
             \o TypecastFormat(pairs, i + 1)

\* a renderer that passes every argument through as it is
TypecastArgAsIs(displayable) == <<",", " ">> \o displayable.arg

\* display_typecast: one reconstructed argument
TypecastArg(displayable) ==
  IF displayable.type_checked
    THEN <<",", " ">> \o displayable.arg
    ELSE <<",", " ", "(">> \o CTypeDisplay(displayable.specifier.ctype)
           \o <<")", " ", "(">> \o displayable.arg \o <<")">>

\* display_typecast: reconstruct the arguments, but with type casts now
RECURSIVE TypecastArgs(_, _)
TypecastArgs(pairs, i) ==
  IF i > Len(pairs) THEN <<>>
  ELSE TypecastArg(pairs[i][2]) \o TypecastArgs(pairs, i + 1)

\* display_typecast: the closure format_site
TypecastSite(site) ==
  TypecastHead(site)
    \o TypecastFormat(site.format.pairs, 1)
    \o site.format.last \o <<"\"">>
    \o TypecastArgs(site.format.pairs, 1)
    \o <<")">>

\* DisplayIntermediateRepresentation::fmt with format_site = display_optimize's
RECURSIVE DisplayOptimizeFrom(_, _)
DisplayOptimizeFrom(ir, i) ==
  IF i > Len(ir.pairs) THEN ir.last
  ELSE ir.pairs[i][1] \o OptimizeSite(ir.pairs[i][2])
         \o DisplayOptimizeFrom(ir, i + 1)

display_optimize(ir) == DisplayOptimizeFrom(ir, 1)

\* DisplayIntermediateRepresentation::fmt with format_site = display_typecast's
RECURSIVE DisplayTypecastFrom(_, _)
DisplayTypecastFrom(ir, i) ==
  IF i > Len(ir.pairs) THEN ir.last
  ELSE ir.pairs[i][1] \o TypecastSite(ir.pairs[i][2])
         \o DisplayTypecastFrom(ir, i + 1)

display_typecast(ir) == DisplayTypecastFrom(ir, 1)

\* main.rs write: writeln!(writer, "{}", repr)
write(repr) == repr \o <<"\n">>

(***************************************************************************)
(* The state: main's source, the locals of IntermediateRepresentation::    *)
(* parse (lex, span, pairs, errors, and before and site of the loop body), *)
(* the locals of parse_args (name stands for the call site and fixes       *)
(* PRE_ARGS), parse's result and what main wrote.                          *)
(***************************************************************************)
VARIABLES
  source,        \* the text of the file
  pc,            \* "parse": at the head of parse's loop; "args": in parse_args
                 \* before the format string; "match": in the matcher's loop;
                 \* "parsed": parse has returned
  lex,           \* the source lexer's span; the next token is read from lex.end
  span,          \* Option<Range>: the verbatim chunk gathered so far
  pairs,         \* Option<Vec<(&str, Site)>>
  errors,        \* Vec<Error>
  before,        \* the chunk before the call site being parsed
  site,          \* Option<Site>: what parse_args last returned
  name,          \* "Printf", "Sprintf", "Snprintf": the call site; "-" before any
  args,          \* parse_args: the Args iterator
  pre_args,      \* parse_args: the arguments before the format string
  format,        \* parse_args: the format string's content
  format_span,   \* parse_args: the format argument's span
  specifiers,    \* parse_args: the Specifiers iterator
  maybe_pairs,   \* parse_args: Option<Vec<(&str, FormatValue)>>
  result,        \* Option<Result<IntermediateRepresentation, Vec<Error>>>
  out_optimize,  \* Option: the text written to --optimize
  out_typecast   \* Option: the text written to --typecast

parse_vars == <<lex, span, pairs, errors, before, site>>
args_vars == <<name, args, pre_args, format, format_span, specifiers, maybe_pairs>>
main_vars == <<result, out_optimize, out_typecast>>
vars == <<source, pc, parse_vars, args_vars, main_vars>>

\* The arms of parse's loop are written for SourceToken::Identifier("printf")
\* and so on; the tokenizer of lex.rs has the tokens Printf, Sprintf and
\* Snprintf for the three names, and no identifier rule, and these are the
\* tokens the arms are taken on.
Tracked == {"Printf", "Sprintf", "Snprintf"}

\* Lexer::next on the source lexer: the token t it returns, and the lexer's
\* span after it
LexNextOf(s, t) ==
  [token |-> t,
   lex |-> IF t.some THEN Range(t.v.start, t.v.end) ELSE Range(Len(s), Len(s))]

LexNext(s, lx) == LexNextOf(s, SourceToken(s, lx.end))

\* two calls of Lexer::next
LexNextNext(s, lx) == LexNext(s, LexNext(s, lx).lex)

IsToken(n, kind) == n.token.some /\ n.token.v.kind = kind

\* Lexer::bump on the source lexer
Bump(lx, n) == [lx EXCEPT !.end = lx.end + n]

\* a loop body that goes on with the pairs it has when a call failed
PushSiteForgets(ps, bef, st) ==
  IF ps.some /\ st.some THEN Some(Append(ps.v, <<bef, st.v>>)) ELSE ps

\* ir.rs 91-97: what the loop body does with the value of parse_args
PushSite(ps, bef, st) ==
  IF ps.some /\ st.some THEN Some(Append(ps.v, <<bef, st.v>>))
  ELSE IF ~st.some THEN None
  ELSE ps

\* parse_args returns st to the loop body of parse
Return(st) ==
  /\ pc' = "parse"
  /\ site' = st
  /\ pairs' = PushSite(pairs, before, st)

\* the arm `_` of parse's loop: the token n joins the verbatim chunk
OtherArm(n) ==
  /\ n.token.some
  /\ n.token.v.kind \notin Tracked
  /\ lex' = n.lex
  /\ span' = Some(IF span.some THEN Range(span.v.start, n.lex.end) ELSE n.lex)
  /\ UNCHANGED <<source, pc, pairs, errors, before, site, args_vars, main_vars>>

ParseOther == pc = "parse" /\ OtherArm(LexNext(source, lex))

\* `before` of a tracked name whose token starts at offset start
Before(sp, start) ==
  IF sp.some THEN Slice(source, sp.v.start, start) ELSE <<>>

\* a tracked name is followed by "(": the head of parse_args (Args::new)
EnterCall(nm, bef, lx) ==
  /\ pc' = "args"
  /\ lex' = lx
  /\ span' = None
  /\ name' = nm
  /\ before' = bef
  /\ args' = ArgsNew(lx)
  /\ pre_args' = <<>>
  /\ UNCHANGED <<source, pairs, errors, site, format, format_span, specifiers,
                 maybe_pairs, main_vars>>

\* the arm "printf" of parse's loop, n being the name's token and m the one
\* after it (span.as_ref(): span is left in place when m is no "(")
PrintfArm(n, m) ==
  \/ /\ ~IsToken(m, "LParen")
     /\ lex' = m.lex
     /\ UNCHANGED <<source, pc, span, pairs, errors, before, site, args_vars,
                    main_vars>>
  \/ /\ IsToken(m, "LParen")
     /\ EnterCall("Printf", Before(span, n.lex.start), m.lex)

ParsePrintf ==
  /\ pc = "parse"
  /\ IsToken(LexNext(source, lex), "Printf")
  /\ PrintfArm(LexNext(source, lex), LexNextNext(source, lex))

\* the arm "sprintf" of parse's loop (span.take(): span is emptied)
SprintfArm(n, m) ==
  \/ /\ ~IsToken(m, "LParen")
     /\ lex' = m.lex
     /\ span' = None
     /\ UNCHANGED <<source, pc, pairs, errors, before, site, args_vars,
                    main_vars>>
  \/ /\ IsToken(m, "LParen")
     /\ EnterCall("Sprintf", Before(span, n.lex.start), m.lex)

ParseSprintf ==
  /\ pc = "parse"
  /\ IsToken(LexNext(source, lex), "Sprintf")
  /\ SprintfArm(LexNext(source, lex), LexNextNext(source, lex))

\* the arm "snprintf" of parse's loop (span.take(): span is emptied)
SnprintfArm(n, m) ==
  \/ /\ ~IsToken(m, "LParen")
     /\ lex' = m.lex
     /\ span' = None
     /\ UNCHANGED <<source, pc, pairs, errors, before, site, args_vars,
                    main_vars>>
  \/ /\ IsToken(m, "LParen")
     /\ EnterCall("Snprintf", Before(span, n.lex.start), m.lex)

ParseSnprintf ==
  /\ pc = "parse"
  /\ IsToken(LexNext(source, lex), "Snprintf")
  /\ SnprintfArm(LexNext(source, lex), LexNextNext(source, lex))

\* a return that drains the arguments and reports nothing
PushMissingSilent(sc, bump) ==
  /\ errors' = errors
  /\ args' = sc.args
  /\ lex' = Bump(lex, bump + sc.bump)

\* `errors.push(Error::MissingFunctionArgs(args.short_circuit().1))`
PushMissing(sc, bump) ==
  /\ errors' = Append(errors, MissingFunctionArgs(sc.span))
  /\ args' = sc.args
  /\ lex' = Bump(lex, bump + sc.bump)

\* parse_args 340-346: one turn of the loop over pre_args, r being the value
\* of args.next()
PreArgTurn(r) ==
  \/ /\ r.item.some
     /\ pre_args' = Append(pre_args, Slice(source, r.item.v.span.start,
                                           r.item.v.span.end))
     /\ args' = r.args
     /\ lex' = Bump(lex, r.bump)
     /\ UNCHANGED <<source, pc, span, pairs, errors, before, site, name,
                    format, format_span, specifiers, maybe_pairs, main_vars>>
  \/ /\ ~r.item.some
     /\ PushMissing(short_circuit(source, r.args), r.bump)
     /\ Return(None)
     /\ UNCHANGED <<source, span, before, name, pre_args, format, format_span,
                    specifiers, maybe_pairs, main_vars>>

PreArg ==
  /\ pc = "args"
  /\ Len(pre_args) < PRE_ARGS(name)
  /\ PreArgTurn(ArgsNext(source, args))

\* parse_args 348-354: the format string, then Specifiers::new; r is the
\* value of args.next_format_string()
FormatStringTurn(r) ==
  /\ args' = r.args
  /\ lex' = Bump(lex, r.bump)
  /\ \/ /\ r.res.ok
        /\ format' = r.res.format
        /\ format_span' = r.res.span
        /\ specifiers' = SpecifiersNew(r.res.format)
        /\ maybe_pairs' = Some(<<>>)
        /\ pc' = "match"
        /\ UNCHANGED <<pairs, errors, site>>
     \/ /\ ~r.res.ok
        /\ errors' = Append(errors, r.res.error)
        /\ Return(None)
        /\ UNCHANGED <<format, format_span, specifiers, maybe_pairs>>
  /\ UNCHANGED <<source, span, before, name, pre_args, main_vars>>

FormatString ==
  /\ pc = "args"
  /\ Len(pre_args) = PRE_ARGS(name)
  /\ FormatStringTurn(next_format_string(source, args))

\* the new maybe_pairs and errors of the arm (Some(specifier), Some(arg))
Matched(rs, ra) ==
  MatchPair(maybe_pairs, errors, rs.item.v, ra.item.v, rs.specs.before,
            Slice(source, ra.item.v.span.start, ra.item.v.span.end),
            SpecifiersSpan(rs.specs, format_span.start + 1))

SetMatched(m) ==
  /\ maybe_pairs' = m.maybe_pairs
  /\ errors' = m.errors

\* the matcher's loop, arm (Some(specifier), Some(arg)); rs and ra are the
\* values of specifiers.next() and args.next()
BothArm(rs, ra) ==
  /\ rs.item.some /\ ra.item.some
  /\ SetMatched(Matched(rs, ra))
  /\ specifiers' = rs.specs
  /\ args' = ra.args
  /\ lex' = Bump(lex, ra.bump)
  /\ UNCHANGED <<source, pc, span, pairs, before, site, name, pre_args, format,
                 format_span, main_vars>>

MatchBoth ==
  /\ pc = "match"
  /\ BothArm(SpecifiersNext(format, specifiers), ArgsNext(source, args))

\* an ExcessSpecifiers that leaves out the specifier that found no argument
PushExcessSpecifiersRest(rs, sc, bump) ==
  /\ errors' = Append(errors, ExcessSpecifiers(format_span, sc.span,
                        SpecifiersCount(format, rs.specs)))
  /\ args' = sc.args
  /\ lex' = Bump(lex, bump + sc.bump)

\* `errors.push(Error::ExcessSpecifiers {..})`, sc being args.short_circuit()
PushExcessSpecifiers(rs, sc, bump) ==
  /\ errors' = Append(errors, ExcessSpecifiers(format_span, sc.span,
                        SpecifiersCount(format, rs.specs) + 1))
  /\ args' = sc.args
  /\ lex' = Bump(lex, bump + sc.bump)

\* the matcher's loop, arm (Some(_), None): a specifier without an argument
ExcessSpecifiersArm(rs, ra) ==
  /\ rs.item.some /\ ~ra.item.some
  /\ PushExcessSpecifiers(rs, short_circuit(source, ra.args), ra.bump)
  /\ specifiers' = rs.specs
  /\ Return(None)
  /\ UNCHANGED <<source, span, before, name, pre_args, format, format_span,
                 maybe_pairs, main_vars>>

MatchExcessSpecifiers ==
  /\ pc = "match"
  /\ ExcessSpecifiersArm(SpecifiersNext(format, specifiers),
                         ArgsNext(source, args))

\* an ExcessArgs that leaves out the argument that found no specifier
PushExcessArgsRest(sc, bump) ==
  /\ errors' = Append(errors, ExcessArgs(format_span, sc.span, sc.remaining))
  /\ args' = sc.args
  /\ lex' = Bump(lex, bump + sc.bump)

\* `errors.push(Error::ExcessArgs {..})`, sc being args.short_circuit()
PushExcessArgs(sc, bump) ==
  /\ errors' = Append(errors, ExcessArgs(format_span, sc.span, sc.remaining + 1))
  /\ args' = sc.args
  /\ lex' = Bump(lex, bump + sc.bump)

\* the matcher's loop, arm (None, Some(_)): an argument without a specifier
ExcessArgsArm(rs, ra) ==
  /\ ~rs.item.some /\ ra.item.some
  /\ PushExcessArgs(short_circuit(source, ra.args), ra.bump)
  /\ specifiers' = rs.specs
  /\ Return(None)
  /\ UNCHANGED <<source, span, before, name, pre_args, format, format_span,
                 maybe_pairs, main_vars>>

MatchExcessArgs ==
  /\ pc = "match"
  /\ ExcessArgsArm(SpecifiersNext(format, specifiers), ArgsNext(source, args))

\* the matcher's loop, arm (None, None): `maybe_pairs?` decides the value
DoneArm(rs, ra) ==
  /\ ~rs.item.some /\ ~ra.item.some
  /\ specifiers' = rs.specs
  /\ args' = ra.args
  /\ lex' = Bump(lex, ra.bump)
  /\ Return(IF maybe_pairs.some
              THEN Some(Site(name, pre_args,
                             Interpolation(maybe_pairs.v, rs.specs.remainder)))
              ELSE None)
  /\ UNCHANGED <<source, span, errors, before, name, pre_args, format,
                 format_span, maybe_pairs, main_vars>>

MatchDone ==
  /\ pc = "match"
  /\ DoneArm(SpecifiersNext(format, specifiers), ArgsNext(source, args))

\* parse 100-106: Ok(IR) or Err(errors)
ParseResult ==
  IF pairs.some
    THEN [ok |-> TRUE,
          ir |-> Interpolation(pairs.v,
                   IF span.some THEN Slice(source, span.v.start, span.v.end)
                   ELSE <<>>)]
    ELSE [ok |-> FALSE, errors |-> errors]

\* the end of parse's loop: lex.next() is None
ParseEnd ==
  /\ pc = "parse"
  /\ ~LexNext(source, lex).token.some
  /\ lex' = LexNext(source, lex).lex
  /\ result' = Some(ParseResult)
  /\ span' = None
  /\ pc' = "parsed"
  /\ UNCHANGED <<source, pairs, errors, before, site, args_vars, out_optimize,
                 out_typecast>>

\* main: write(repr.display_optimize(), ..) when --optimize is given
WriteOptimize ==
  /\ pc = "parsed"
  /\ result.v.ok
  /\ ~out_optimize.some /\ ~out_typecast.some
  /\ out_optimize' = Some(write(display_optimize(result.v.ir)))
  /\ UNCHANGED <<source, pc, parse_vars, args_vars, result, out_typecast>>

\* main: write(repr.display_typecast(), ..) when --typecast is given
WriteTypecast ==
  /\ pc = "parsed"
  /\ result.v.ok
  /\ ~out_typecast.some
  /\ out_typecast' = Some(write(display_typecast(result.v.ir)))
  /\ UNCHANGED <<source, pc, parse_vars, args_vars, result, out_optimize>>

(***************************************************************************)
(* The sources the model is run on.  Each family is a set of C texts over  *)
(* the alphabet, built from a few pieces; the bounds say how many pieces.  *)
(***************************************************************************)
MaxSpecifiers == 2   \* specifiers in a format string of MatchSources
MaxArgs == 3         \* arguments after the format string in MatchSources
MaxPieces == 2       \* pieces of a format string in FormatSources
MaxCallArgs == 2     \* arguments from the format position on in CallSources
MaxItems == 3        \* items of a file in FileSources

SeqsUpTo(S, n) == UNION {[1..k -> S] : k \in 0..n}

RECURSIVE Flatten(_)
Flatten(ss) == IF ss = <<>> THEN <<>> ELSE Head(ss) \o Flatten(Tail(ss))

RECURSIVE Join(_)
Join(ss) ==
  IF ss = <<>> THEN <<>>
  ELSE IF Len(ss) = 1 THEN ss[1]
  ELSE ss[1] \o <<",">> \o Join(Tail(ss))

Quoted(f) == <<"\"">> \o f \o <<"\"">>

FnName(nm) ==
  CASE nm = "Printf" -> s_printf [] nm = "Sprintf" -> s_sprintf
    [] nm = "Snprintf" -> s_snprintf

\* the arguments a call needs before its format string
PreText(nm) ==
  CASE nm = "Printf" -> <<>> [] nm = "Sprintf" -> <<<<"b">>>>
    [] nm = "Snprintf" -> <<<<"b">>, <<"5">>>>

CallText(nm, arglist) == FnName(nm) \o <<"(">> \o Join(arglist) \o <<")">>

\* printf(FORMAT, ARG, ..): every run of specifiers against every run of
\* arguments: without a cast, with a cast in front, with a cast further in
MatchSpecifiers == {<<"%", "d">>, <<"%", "s">>, <<"%", "f">>}
MatchArgs ==
  {<<"x">>, <<"(", "i", "n", "t", ")", "x">>,
   <<"(", "f", "l", "o", "a", "t", ")", "x">>,
   <<"(", "c", "h", "a", "r", "*", ")", "x">>,
   <<"x", "*", "(", "i", "n", "t", ")", "x">>}
MatchSources ==
  {CallText("Printf", <<Quoted(Flatten(f))>> \o a) :
     f \in SeqsUpTo(MatchSpecifiers, MaxSpecifiers),
     a \in SeqsUpTo(MatchArgs, MaxArgs)}

\* NAME(.., FORMAT, x, ..): format strings of specifiers with and without
\* options, unrecognized specifiers and plain text, as many uncast arguments as
\* specifiers; the literal is followed by a blank or not
FormatSpecifiers ==
  {<<"%", "d">>, <<"%", "i">>, <<"%", "5", "s">>, <<"%", "5", "5", "f">>}
FormatPieces == FormatSpecifiers \cup {<<"%", "x">>, <<"a">>, <<" ">>}
RECURSIVE CountSpecifiers(_)
CountSpecifiers(ps) ==
  IF ps = <<>> THEN 0
  ELSE (IF Head(ps) \in FormatSpecifiers THEN 1 ELSE 0)
         + CountSpecifiers(Tail(ps))
FormatSources ==
  {CallText(nm, PreText(nm) \o <<Quoted(Flatten(f)) \o blank>>
                  \o [i \in 1..CountSpecifiers(f) |-> <<"x">>]) :
     nm \in Tracked, f \in SeqsUpTo(FormatPieces, MaxPieces),
     blank \in {<<>>, <<" ">>}}

\* NAME(ARG, ..): the calls that lack arguments, and the calls with all
\* kinds of arguments from the format string's position on
CallArgs ==
  {<<"x">>, <<"(", "x", ")">>, <<"f", "(", ")">>,
   <<"(", "i", "n", "t", ")", "x">>, <<"x", "*", "x">>,
   <<"\"", "%", "d", "\"">>}
CallSources ==
  {CallText(nm, a) : nm \in Tracked, a \in SeqsUpTo(CallArgs, 2)}
    \cup {CallText(nm, <<<<" ">>>>) : nm \in Tracked}
    \cup {CallText(nm, PreText(nm) \o a) :
            nm \in Tracked, a \in SeqsUpTo(CallArgs, MaxCallArgs)}

\* a file: a run of items, calls that validate, calls that fail, tracked
\* names that are no call, and other text
FileItems ==
  {<<"x", ";">>, <<" ">>, s_printf \o <<";">>, s_sprintf \o <<";">>,
   s_snprintf \o <<";">>,
   s_printf \o <<"(", "\"", "%", "d", "\"", ",", "x", ")", ";">>,
   s_printf \o <<"(", "\"", "%", "d", "\"", ")", ";">>,
   s_sprintf \o <<"(", "b", ",", "\"", "%", "s", "%", "d", "\"", ",">>
     \o <<"(", "i", "n", "t", ")", "x", ",">>
     \o <<"(", "f", "l", "o", "a", "t", ")", "x", ")", ";">>,
   s_snprintf \o <<"(", "b", ",", "5", ",", "\"", "a", "\"", ")", ";">>}
FileSources == {Flatten(items) : items \in SeqsUpTo(FileItems, MaxItems)}

\* xNAMEy(ARG, ..): a tracked name with identifier characters before it or
\* after it, or none, and arguments that would validate or fail
NameBefore == {<<>>, <<"f">>, <<"x", "_">>}
NameAfter == {<<>>, <<"_", "x">>}
NameArgs == {<<"x">>, <<"\"", "%", "d", "\"", ",", "x">>, <<"\"", "%", "d", "\"">>}
NameSources ==
  {pre \o FnName(nm) \o post \o <<"(">> \o a \o <<")", ";">> :
     pre \in NameBefore, nm \in Tracked, post \in NameAfter, a \in NameArgs}

\* printf(ARG, ..): arguments with commas and parentheses inside parentheses
\* and inside string literals, and blanks around them
SplitArgs ==
  {<<"x">>, <<"f", "(", "x", ",", "x", ")">>,
   <<"(", "(", "x", ")", ",", "x", ")">>,
   <<"\"", ",", ")", "(", "\"">>,
   <<" ", "(", "i", "n", "t", ")", "f", "(", ")", " ">>}
SplitSources ==
  {CallText("Printf", a) \o <<";">> :
     a \in SeqsUpTo(SplitArgs, MaxCallArgs + 1) \ {<<>>}}

\* printf("%d", ARG, ..): a cast in front of the argument, inside nested
\* parentheses, and two casts in a row
CastArgs ==
  {<<"(", "i", "n", "t", ")", "x">>,
   <<"f", "(", "(", "i", "n", "t", ")", "x", ")">>,
   <<"(", "(", "c", "h", "a", "r", "*", ")", "x", ")">>,
   <<"(", "i", "n", "t", ")", "(", "f", "l", "o", "a", "t", ")", "x">>}
CastSources ==
  {CallText("Printf", <<Quoted(<<"%", "d">>)>> \o a) \o <<";">> :
     a \in SeqsUpTo(CastArgs, MaxCallArgs)}

Sources ==
  MatchSources \cup FormatSources \cup CallSources \cup FileSources
    \cup NameSources \cup SplitSources \cup CastSources

Init ==
  /\ source \in Sources
  /\ pc = "parse"
  /\ lex = Range(0, 0)
  /\ span = None
  /\ pairs = Some(<<>>)
  /\ errors = <<>>
  /\ before = <<>>
  /\ site = None
  /\ name = "-"
  /\ args = ArgsNew(Range(0, 0))
  /\ pre_args = <<>>
  /\ format = <<>>
  /\ format_span = Range(0, 0)
  /\ specifiers = SpecifiersNew(<<>>)
  /\ maybe_pairs = None
  /\ result = None
  /\ out_optimize = None
  /\ out_typecast = None

Next ==
  \/ ParseOther
  \/ ParsePrintf
  \/ ParseSprintf
  \/ ParseSnprintf
  \/ PreArg
  \/ FormatString
  \/ MatchBoth
  \/ MatchExcessSpecifiers
  \/ MatchExcessArgs
  \/ MatchDone
  \/ ParseEnd
  \/ WriteOptimize
  \/ WriteTypecast

Spec == Init /\ [][Next]_vars

(***************************************************************************)
(* Reading the call last entered back from the text: its arguments (what   *)
(* the Args iterator yields from the call's "(" on), its format string and *)
(* the specifiers of that (what the Specifiers iterator yields), and the   *)
(* errors located in it.                                                   *)
(***************************************************************************)
RECURSIVE ArgListFrom(_, _)
ArgListTurn(s, r) ==
  IF r.item.some THEN <<r.item.v>> \o ArgListFrom(s, r.args) ELSE <<>>
ArgListFrom(s, a) == ArgListTurn(s, ArgsNext(s, a))

RECURSIVE SpecifierListFrom(_, _)
SpecifierListTurn(f, r) ==
  IF r.item.some THEN <<r.item.v>> \o SpecifierListFrom(f, r.specs) ELSE <<>>
SpecifierListFrom(f, sp) == SpecifierListTurn(f, SpecifiersNext(f, sp))

ArgText(arg) == Slice(source, arg.span.start, arg.span.end)

\* the type a text is cast to by a cast in front of it, "-" when there is none
CastOfText(text) ==
  CASE StartsWith(text, 0, s_cast_int) -> "Int"
    [] StartsWith(text, 0, s_cast_float) -> "Float"
    [] StartsWith(text, 0, s_cast_string) -> "String"
    [] OTHER -> "-"

\* parse_args has returned, and no other call was entered since
Returned == pc \in {"parse", "parsed"} /\ name # "-"

\* the arguments of the call, al in what follows
ArgsOfCall == ArgListFrom(source, ArgsNew(Range(args.start, args.start)))

\* the argument in the format string's position is a string literal
IsLiteral(al) ==
  /\ Len(al) > PRE_ARGS(name)
  /\ al[PRE_ARGS(name) + 1].single_token.some
  /\ al[PRE_ARGS(name) + 1].single_token.v.kind = "String"

\* the specifiers of the format string, specs in what follows
SpecsOf(f) == SpecifierListFrom(f, SpecifiersNew(f))
SpecsOfCall(al) ==
  SpecsOf(trim(Slice(source, al[PRE_ARGS(name) + 1].single_token.v.start,
                     al[PRE_ARGS(name) + 1].single_token.v.end)))

\* the arguments after the format string, vals in what follows
ValuesOfCall(al) == SubSeq(al, PRE_ARGS(name) + 2, Len(al))

InCall(e) == e.span.start >= args.start
ErrorsOfCall == SelectSeq(errors, InCall)

IsMismatch(e) == e.kind = "SpecifierCastMismatch"
IsExcessSpecifiers(e) == e.kind = "ExcessSpecifiers"
IsExcessArgs(e) == e.kind = "ExcessArgs"
IsMissing(e) == e.kind = "MissingFunctionArgs"
IsNonliteral(e) == e.kind = "NonliteralFormat"

Min(a, b) == IF a < b THEN a ELSE b

C2_Accepted(vals, specs) ==
  (/\ Len(specs) = Len(vals)
   /\ \A i \in 1..Len(specs) :
        CastOfText(ArgText(vals[i])) \in {"-", specs[i].ctype})
  => /\ site.some
     /\ ErrorsOfCall = <<>>
     /\ Len(site.v.format.pairs) = Len(specs)
     /\ \A i \in 1..Len(specs) :
          /\ site.v.format.pairs[i][2].specifier = specs[i]
          /\ site.v.format.pairs[i][2].arg = ArgText(vals[i])
          /\ site.v.format.pairs[i][2].type_checked
               <=> CastOfText(ArgText(vals[i])) = specs[i].ctype

C2_OfCall(al) ==
  IsLiteral(al) => C2_Accepted(ValuesOfCall(al), SpecsOfCall(al))

\* C2: a call with a literal format and as many specifiers as arguments, no
\* argument beginning with a cast to another type than its specifier's,
\* yields a Site and no error; the Site has one FormatValue per specifier, in
\* order, for that specifier and that argument's text, and type_checked is
\* true exactly for the arguments that begin with a cast to the specifier's
\* type
C2_MatcherAccepts == Returned => C2_OfCall(ArgsOfCall)

\* the mismatches of the paired positions from i on: the types and the span
\* of the cast
RECURSIVE ExpectedMismatches(_, _, _)
ExpectedMismatches(vals, specs, i) ==
  IF i > Min(Len(specs), Len(vals)) THEN <<>>
  ELSE (IF CastOfText(ArgText(vals[i])) \notin {"-", specs[i].ctype}
          THEN <<[specifier_ctype |-> specs[i].ctype,
                  cast_ctype |-> CastOfText(ArgText(vals[i])),
                  cast_span |-> vals[i].cast.v.span]>>
          ELSE <<>>)
         \o ExpectedMismatches(vals, specs, i + 1)

\* the errors errs that report the cast at cast_span
ReportsOf(errs, cast_span) ==
  LET Reports(e) == e.cast_span = cast_span IN SelectSeq(errs, Reports)

\* every expected mismatch is reported once, with its types, and the reports
\* come in the order of the positions
C3_Reported(errs, expected) ==
  /\ \A k \in 1..Len(expected) :
       /\ Len(ReportsOf(errs, expected[k].cast_span)) = 1
       /\ ReportsOf(errs, expected[k].cast_span)[1].specifier_ctype
            = expected[k].specifier_ctype
       /\ ReportsOf(errs, expected[k].cast_span)[1].cast_ctype
            = expected[k].cast_ctype
  /\ \A k, l \in 1..Len(expected) :
       k < l => \E m, n \in 1..Len(errs) :
                  /\ m < n
                  /\ errs[m].cast_span = expected[k].cast_span
                  /\ errs[n].cast_span = expected[l].cast_span
  /\ expected # <<>> => ~site.some

C3_OfCall(al) ==
  IsLiteral(al) =>
    C3_Reported(SelectSeq(ErrorsOfCall, IsMismatch),
                ExpectedMismatches(ValuesOfCall(al), SpecsOfCall(al), 1))

\* C3: for every paired position of a call whose argument begins with a cast
\* to another type than the specifier's, the call's errors hold exactly one
\* SpecifierCastMismatch for that cast, with the two types, in the order of
\* the positions; when there is one the call yields no Site, and from the
\* first mismatch on the matcher records no FormatValue
C3_EveryMismatchReported ==
  /\ Returned => C3_OfCall(ArgsOfCall)
  /\ (pc = "match" /\ SelectSeq(ErrorsOfCall, IsMismatch) # <<>>)
       => ~maybe_pairs.some

C3_Seen(al) ==
  /\ IsLiteral(al)
  /\ Len(ExpectedMismatches(ValuesOfCall(al), SpecsOfCall(al), 1)) = 2

\* a call returned with two mismatches, both reported
C3_Witness ==
  /\ Returned
  /\ C3_Seen(ArgsOfCall)
  /\ Len(SelectSeq(ErrorsOfCall, IsMismatch)) = 2
  /\ ~site.some

C4_Reported(vals, specs, errs) ==
  Len(specs) > Len(vals)
  => /\ ~site.some
     /\ Len(SelectSeq(errs, IsExcessSpecifiers)) = 1
     /\ errs[Len(errs)].kind = "ExcessSpecifiers"
     /\ errs[Len(errs)].additional_specifiers = Len(specs) - Len(vals)
     /\ SelectSeq(errs, IsExcessArgs) = <<>>

C4_OfCall(al) ==
  IsLiteral(al) =>
    C4_Reported(ValuesOfCall(al), SpecsOfCall(al), ErrorsOfCall)

\* C4: a call with k >= 1 more specifiers than arguments after the format
\* string yields no Site and exactly one ExcessSpecifiers error, the last
\* error of the call, with additional_specifiers = k
C4_ExcessSpecifiers == Returned => C4_OfCall(ArgsOfCall)

C4_Seen(al) ==
  IsLiteral(al) /\ Len(SpecsOfCall(al)) = Len(ValuesOfCall(al)) + 2

\* a call returned that had two specifiers more than arguments
C4_Witness ==
  /\ Returned
  /\ C4_Seen(ArgsOfCall)
  /\ ~site.some
  /\ errors # <<>>
  /\ errors[Len(errors)].kind = "ExcessSpecifiers"

C5_Reported(vals, specs, errs) ==
  Len(vals) > Len(specs)
  => /\ ~site.some
     /\ Len(SelectSeq(errs, IsExcessArgs)) = 1
     /\ errs[Len(errs)].kind = "ExcessArgs"
     /\ errs[Len(errs)].additional_args = Len(vals) - Len(specs)
     /\ SelectSeq(errs, IsExcessSpecifiers) = <<>>

C5_OfCall(al) ==
  IsLiteral(al) =>
    C5_Reported(ValuesOfCall(al), SpecsOfCall(al), ErrorsOfCall)

\* C5: a call with k >= 1 more arguments after the format string than
\* specifiers yields no Site and exactly one ExcessArgs error, the last error
\* of the call, with additional_args = k
C5_ExcessArgs == Returned => C5_OfCall(ArgsOfCall)

C5_Seen(al) ==
  IsLiteral(al) /\ Len(ValuesOfCall(al)) = Len(SpecsOfCall(al)) + 2

\* a call returned that had two arguments more than specifiers
C5_Witness ==
  /\ Returned
  /\ C5_Seen(ArgsOfCall)
  /\ ~site.some
  /\ errors # <<>>
  /\ errors[Len(errors)].kind = "ExcessArgs"

IsPrefix(s, u) == Len(s) <= Len(u) /\ SubSeq(u, 1, Len(s)) = s

\* parse_args returns in this step
Returns == pc \in {"args", "match"} /\ pc' = "parse"

\* C1: parse returns Ok exactly when no call failed, and otherwise Err of the
\* errors pushed, which are not empty; a call that fails pushes at least one
\* error and a call that validates pushes none and joins the pairs; errors
\* are only ever appended, a failure is never forgotten, and scanning goes on
\* to the end of the text after a call failed
C1_AllErrorsReturned ==
  /\ [](pc = "parsed" =>
          /\ result.v.ok <=> errors = <<>>
          /\ result.v.ok <=> pairs.some
          /\ ~result.v.ok => result.v.errors = errors /\ errors # <<>>
          /\ lex.end = Len(source))
  /\ [][/\ IsPrefix(errors, errors')
        /\ ~pairs.some => ~pairs'.some
        /\ (Returns /\ ~site'.some)
             => ErrorsOfCall' # <<>> /\ ~pairs'.some
        /\ (Returns /\ site'.some)
             => /\ ErrorsOfCall' = <<>>
                /\ errors' = errors
                /\ pairs.some => pairs' = Some(Append(pairs.v,
                                                      <<before, site'.v>>))
     ]_vars

\* parse returned Err with the errors of two calls, the first of which ends
\* before the second begins, and a call validated before them
C1_Witness ==
  /\ pc = "parsed"
  /\ ~result.v.ok
  /\ Len(result.v.errors) = 2
  /\ result.v.errors[1].kind = "ExcessSpecifiers"
  /\ result.v.errors[2].kind = "ExcessSpecifiers"
  /\ result.v.errors[1].span.end < result.v.errors[2].span.start
  /\ result.v.errors[1].span.start > Len(s_printf) + 1

\* a text that is one identifier
IsIdentifier(text) ==
  /\ text # <<>>
  /\ text[1] \in Letters
  /\ \A i \in 1..Len(text) : text[i] \in Letters \cup Digits

C6_Reported(arg, errs) ==
  /\ ~site.some
  /\ Len(errs) = 1
  /\ errs[1].kind = "NonliteralFormat"
  /\ errs[1].span = arg.span
  /\ IF IsIdentifier(ArgText(arg))
       THEN /\ errs[1].help.advice = "use printf(\"%s\", ident)"
            /\ errs[1].help.ident = ArgText(arg)
       ELSE errs[1].help.advice = "use a string literal"

C6_OfCall(al) ==
  (Len(al) > PRE_ARGS(name) /\ ~IsLiteral(al))
  => C6_Reported(al[PRE_ARGS(name) + 1], ErrorsOfCall)

\* C6: a call whose argument in the format string's position is no string
\* literal yields no Site and one error, a NonliteralFormat with that
\* argument's span; the help suggests printf("%s", name) when the argument
\* is the identifier name, and a string literal for every other argument
C6_NonliteralFormat == Returned => C6_OfCall(ArgsOfCall)

C7_Reported(errs) ==
  /\ ~site.some
  /\ Len(errs) = 1
  /\ errs[1].kind = "MissingFunctionArgs"

C7_OfCall(al) == Len(al) <= PRE_ARGS(name) => C7_Reported(ErrorsOfCall)

\* C7: a call with fewer arguments than the arguments before the format
\* string plus the format string yields no Site and one error, a
\* MissingFunctionArgs
C7_MissingFunctionArgs == Returned => C7_OfCall(ArgsOfCall)

C7_Seen(al) == Len(al) = 2

\* an snprintf with a buffer and a size, and nothing else, returned
C7_Witness ==
  /\ Returned
  /\ name = "Snprintf"
  /\ C7_Seen(ArgsOfCall)
  /\ ~site.some
  /\ errors # <<>>
  /\ errors[Len(errors)].kind = "MissingFunctionArgs"

\* no tracked name of the text s has a "(" after it
NoCall(s) ==
  \A p \in 0..Len(s) :
    StartsWith(s, p, s_printf)
      => ~StartsWith(s, SkipWs(s, p + Len(s_printf)), <<"(">>)

\* C8: for a text without a call, parse returns Ok of an IR that is one chunk,
\* the text, and both renderers write the text
C8_NoCallUnchanged ==
  NoCall(source)
  => /\ pc = "parsed" => /\ result.v.ok
                         /\ result.v.ir.pairs = <<>>
                         /\ result.v.ir.last = source
     /\ out_optimize.some => out_optimize.v = write(source)
     /\ out_typecast.some => out_typecast.v = write(source)

EndsWith(s, w) == Len(w) <= Len(s) /\ SubSeq(s, Len(s) - Len(w) + 1, Len(s)) = w

\* the name of a type in a cast
CastName(ctype) ==
  CASE ctype = "Int" -> <<"i", "n", "t">>
    [] ctype = "Float" -> <<"f", "l", "o", "a", "t">>
    [] ctype = "String" -> <<"c", "h", "a", "r", "*">>

\* the arguments from the i-th on as they are to be emitted: the text of
\* the argument, in a cast to the specifier's type unless type_checked
RECURSIVE ExpectedArgs(_, _, _)
ExpectedArgs(vals, ps, i) ==
  IF i > Len(ps) THEN <<>>
  ELSE (IF ps[i][2].type_checked
          THEN <<",", " ">> \o ArgText(vals[i])
          ELSE <<",", " ", "(">> \o CastName(ps[i][2].specifier.ctype)
                 \o <<")", " ", "(">> \o ArgText(vals[i]) \o <<")">>)
         \o ExpectedArgs(vals, ps, i + 1)

C9_Rendered(expected) ==
  /\ EndsWith(TypecastSite(site.v), expected \o <<")">>)
  /\ out_typecast.some
       => EndsWith(out_typecast.v,
                   expected \o <<")">> \o result.v.ir.last \o <<"\n">>)

C9_OfCall(al) ==
  /\ Len(site.v.format.pairs) = Len(ValuesOfCall(al))
  /\ C9_Rendered(ExpectedArgs(ValuesOfCall(al), site.v.format.pairs, 1))

\* C9: the typecast rendering of a validated call ends with its arguments in
\* their order, one per specifier: the argument's text as it is in the source
\* when its FormatValue is type_checked, and that text in a cast to the
\* specifier's type when it is not; so does the text written, for the last
\* call of the source
C9_TypecastArgs == (Returned /\ site.some) => C9_OfCall(ArgsOfCall)

\* the typecast rendering was written of a call with an argument that is
\* type_checked and an argument that is not
C9_Witness ==
  /\ Returned
  /\ site.some
  /\ out_typecast.some
  /\ \E i, j \in 1..Len(site.v.format.pairs) :
       /\ site.v.format.pairs[i][2].type_checked
       /\ ~site.v.format.pairs[j][2].type_checked

\* the offset of the first quote of s at or after offset p
RECURSIVE QuoteAfter(_, _)
QuoteAfter(s, p) ==
  IF p >= Len(s) \/ s[p + 1] = "\"" THEN p ELSE QuoteAfter(s, p + 1)

\* the content of the string literal of s that begins at offset a
LiteralContent(s, a) == Slice(s, a + 1, QuoteAfter(s, a + 1))

C10_Rendered(content) ==
  TypecastSite(site.v)
    = TypecastHead(site.v) \o content \o <<"\"">>
        \o TypecastArgs(site.v.format.pairs, 1) \o <<")">>

C10_OfCall(al) ==
  C10_Rendered(LiteralContent(source,
                              al[PRE_ARGS(name) + 1].single_token.v.start))

\* C10: the format string in the typecast rendering of a validated call is
\* the content of the call's format string literal, character for character
C10_FormatUnchanged == (Returned /\ site.some) => C10_OfCall(ArgsOfCall)

\* the number a text of decimal digits stands for, -1 when it is no such text
DigitValue(c) ==
  CASE c = "0" -> 0 [] c = "1" -> 1 [] c = "2" -> 2 [] c = "3" -> 3
    [] c = "4" -> 4 [] c = "5" -> 5 [] c = "6" -> 6 [] c = "7" -> 7
    [] c = "8" -> 8 [] c = "9" -> 9 [] OTHER -> -1

RECURSIVE NumberOf(_)
NumberOf(text) ==
  IF text = <<>> THEN -1
  ELSE IF DigitValue(text[Len(text)]) = -1 THEN -1
  ELSE IF Len(text) = 1 THEN DigitValue(text[1])
  ELSE IF NumberOf(SubSeq(text, 1, Len(text) - 1)) = -1 THEN -1
  ELSE 10 * NumberOf(SubSeq(text, 1, Len(text) - 1))
         + DigitValue(text[Len(text)])

\* the offset after the first "(" of a text, the one that opens the call a
\* rendering begins with
AfterOpen(text) ==
  CHOOSE k \in 1..Len(text) :
    text[k] = "(" /\ \A j \in 1..(k - 1) : text[j] # "("

\* the arguments of the call a rendering begins with, as texts: the text is
\* split as the arguments of a call in a source are
EmittedTexts(text, al) ==
  [k \in 1..Len(al) |-> Slice(text, al[k].span.start, al[k].span.end)]
EmittedFrom(text, open) ==
  EmittedTexts(text, ArgListFrom(text, ArgsNew(Range(open, open))))
EmittedArgs(text) == EmittedFrom(text, AfterOpen(text))

t_void_cast == <<"(", "v", "o", "i", "d", "*", ")", " ">>
FormatFns ==
  {<<"f", "m", "t", "_", "i", "n", "t">>,
   <<"f", "m", "t", "_", "f", "l", "o", "a", "t">>,
   <<"f", "m", "t", "_", "s", "t", "r", "i", "n", "g">>}

\* ea are the arguments emitted for a site of n FormatValues fvs with pre
\* arguments before the count
C11_Counted(ea, fvs, n, pre) ==
  /\ Len(ea) = pre + 1 + 3 * n + 1
  /\ NumberOf(ea[pre + 1]) = 3 * n + 1
  /\ NumberOf(ea[pre + 1]) = Len(ea) - (pre + 1)
  /\ \A i \in 1..n :
       /\ ea[pre + 3 * i - 1] = Quoted(fvs[i][1])
       /\ StartsWith(ea[pre + 3 * i], 0, t_void_cast)
       /\ EndsWith(ea[pre + 3 * i], <<"(">> \o fvs[i][2].arg \o <<")">>)
       /\ ea[pre + 3 * i + 1] \in FormatFns
  /\ ea[Len(ea)] = Quoted(site.v.format.last)

C11_OfSite(text) ==
  /\ C11_Counted(EmittedArgs(text), site.v.format.pairs,
                 Len(site.v.format.pairs), PRE_ARGS(name))
  /\ out_optimize.some
       => EndsWith(out_optimize.v, text \o result.v.ir.last \o <<"\n">>)

\* C11: the optimize rendering of a validated call of n FormatValues has,
\* after the arguments before the format string, the count 3n+1 and then as
\* many arguments as the count says: for each FormatValue its chunk as a
\* literal, a (void*) expression of its argument and a formatter's name, and
\* at the end the trailing chunk as a literal
C11_OptimizeCount == (Returned /\ site.some) => C11_OfSite(OptimizeSite(site.v))

\* the optimize rendering was written of an snprintf of two FormatValues
C11_Witness ==
  /\ Returned
  /\ site.some
  /\ name = "Snprintf"
  /\ out_optimize.some
  /\ Len(site.v.format.pairs) = 2

IdentChars == Letters \cup Digits

\* the printf at offset p of s ends an identifier that is a tracked name, and
\* nothing but blanks stands between it and a "("
IsCallAt(s, p) ==
  /\ StartsWith(s, p, s_printf)
  /\ StartsWith(s, SkipWs(s, p + Len(s_printf)), <<"(">>)
  /\ \/ p = 0
     \/ s[p] \notin IdentChars
     \/ s[p] = "s" /\ (p = 1 \/ s[p - 1] \notin IdentChars)
     \/ /\ p >= 2
        /\ s[p - 1] = "s" /\ s[p] = "n"
        /\ (p = 2 \/ s[p - 2] \notin IdentChars)

\* C12: in a text where no identifier that is exactly printf, sprintf or
\* snprintf is followed by "(", no call is entered: there is never a Site nor
\* an error
C12_OnlyExactNames ==
  (\A p \in 0..Len(source) : ~IsCallAt(source, p))
  => /\ name = "-"
     /\ errors = <<>>
     /\ pairs = Some(<<>>)

(***************************************************************************)
(* The argument list that begins at offset p of s, split by reading it     *)
(* character by character: depth is the number of "(" open, quoted says    *)
(* whether p is inside a string literal, from is where the piece begins.   *)
(* ok says that the ")" that closes the list was found.                    *)
(***************************************************************************)
Piece(r, x) == [ok |-> r.ok, pieces |-> <<x>> \o r.pieces]

RECURSIVE SplitFrom(_, _, _, _, _)
SplitFrom(s, p, depth, quoted, from) ==
  IF p >= Len(s) THEN [ok |-> FALSE, pieces |-> <<>>]
  ELSE IF quoted THEN SplitFrom(s, p + 1, depth, s[p + 1] # "\"", from)
  ELSE IF s[p + 1] = "\"" THEN SplitFrom(s, p + 1, depth, TRUE, from)
  ELSE IF s[p + 1] = "(" THEN SplitFrom(s, p + 1, depth + 1, FALSE, from)
  ELSE IF s[p + 1] = ")" /\ depth > 0
    THEN SplitFrom(s, p + 1, depth - 1, FALSE, from)
  ELSE IF s[p + 1] = ")" THEN [ok |-> TRUE, pieces |-> <<Range(from, p)>>]
  ELSE IF s[p + 1] = "," /\ depth = 0
    THEN Piece(SplitFrom(s, p + 1, 0, FALSE, p + 1), Range(from, p))
  ELSE SplitFrom(s, p + 1, depth, quoted, from)

\* the end of the piece [a, b) of s without the blanks at its end
RECURSIVE SkipWsBack(_, _, _)
SkipWsBack(s, a, b) ==
  IF b > a /\ s[b] \in Whitespace THEN SkipWsBack(s, a, b - 1) ELSE b

\* a piece without the blanks around it
Trimmed(s, x) ==
  Range(Min(SkipWs(s, x.start), x.end), SkipWsBack(s, x.start, x.end))

C13_Split(al, split) ==
  (split.ok /\ \A k \in 1..Len(split.pieces) :
                 Trimmed(source, split.pieces[k]).start
                   < Trimmed(source, split.pieces[k]).end)
  => /\ Len(al) = Len(split.pieces)
     /\ \A k \in 1..Len(al) :
          Trimmed(source, al[k].span) = Trimmed(source, split.pieces[k])

\* C13: the arguments of a call whose list is closed and has no empty
\* argument are the pieces of the text between its "(" and the ")" that
\* closes it, cut at the commas outside parentheses and string literals,
\* blanks at their ends aside: one more than there are such commas
C13_SplitAtDepthZero ==
  Returned => C13_Split(ArgsOfCall, SplitFrom(source, args.start, 0, FALSE,
                                              args.start))

C13_Seen(al) ==
  /\ Len(al) = 3
  /\ \E k \in 1..3 :
       \E j \in (al[k].span.start + 1)..al[k].span.end : source[j] = ","

\* a call returned that has three arguments, one of them with a comma in it
C13_Witness == Returned /\ C13_Seen(ArgsOfCall)

\* the offset after the ")" that closes the argument list split
AfterClose(split) == split.pieces[Len(split.pieces)].end + 1

C14_Past(split) == split.ok => lex'.end = AfterClose(split)

\* C14: when parse_args returns for a call whose argument list is closed,
\* with a Site or without, the source lexer is just past the ")" that closes
\* the call
C14_LexerPastCall ==
  [][Returns => C14_Past(SplitFrom(source, args.start, 0, FALSE, args.start))
    ]_vars

\* the token n is a tracked name and m, the token after it, is no "("
NameAlone(n, m) ==
  /\ n.token.some
  /\ n.token.v.kind \in Tracked
  /\ m.token.some
  /\ m.token.v.kind # "LParen"

\* the verbatim chunk runs from the text gathered before the name n through
\* the token m
C15_Merged(n, m) ==
  /\ span'.some
  /\ span'.v.start = (IF span.some THEN span.v.start ELSE n.lex.start)
  /\ span'.v.end = m.lex.end

\* C15: when a tracked name is followed by a token other than "(", no call
\* site is recorded and the text gathered before the name, the name and the
\* token after it are all in the verbatim chunk
C15_NameAloneKept ==
  [][(pc = "parse"
      /\ NameAlone(LexNext(source, lex), LexNextNext(source, lex)))
     => /\ pc' = "parse"
        /\ pairs' = pairs
        /\ errors' = errors
        /\ C15_Merged(LexNext(source, lex), LexNextNext(source, lex))]_vars

\* the text of a cast to the type ctype
CastText(ctype) ==
  CASE ctype = "Int" -> s_cast_int
    [] ctype = "Float" -> s_cast_float
    [] ctype = "String" -> s_cast_string

\* the argument arg has the cast its text begins with, to the type ctype, and
\* none when ctype is "-"
C16_Cast(arg, ctype) ==
  IF ctype = "-"
    THEN ~arg.cast.some
    ELSE /\ arg.cast.some
         /\ arg.cast.v.ctype = ctype
         /\ arg.cast.v.span
              = Range(arg.span.start, arg.span.start + Len(CastText(ctype)))

C16_OfCall(al) ==
  \A k \in 1..Len(al) : C16_Cast(al[k], CastOfText(ArgText(al[k])))

\* C16: an argument has a cast only when its text begins with a cast token,
\* and the cast it has is that token: a cast token after other content, inside
\* nested parentheses or after a first cast is content of the argument
C16_CastOnlyInFront == Returned => C16_OfCall(ArgsOfCall)
====
